---- MODULE Spec2Model ----
(***************************************************************************)
(* sambacc: the command functions of src/sambacc/main.py as a state        *)
(* machine.  One invocation of the tool is a walk of pc through the labels *)
(* of the selected command function; every label is one statement (one     *)
(* call on a loader or on the OS) of main.py.  The stores (registry,       *)
(* passwd and group files, passdb, nsswitch.conf, the samba directories)   *)
(* outlive an invocation; the loaders' in-memory lines do not.             *)
(*                                                                         *)
(* The loaders themselves (sambacc.config, netcmd_loader, passwd_loader,   *)
(* passdb_loader, nsswitch_loader, paths) are not part of main.py; their   *)
(* operators below follow the contracts given in spec.md (sections 3, 4    *)
(* and 6).                                                                 *)
(***************************************************************************)
EXTENDS Integers, Sequences, FiniteSets, TLC

VARIABLES
    pc,           \* label of the statement to execute next
    args,         \* the command line (argparse namespace before from_env)
    env,          \* os.environ
    entry,        \* "main": through main(); "direct": cfunc(cli, config) called directly
    cli,          \* the namespace handed to the command function
    error,        \* the exception that ended the invocation, "" if none
    configSource, \* identity -> Identity Config, as the config files define it
    iconfig,      \* local iconfig of the running function
    dirs,         \* TRUE once the samba directories exist
    registry,     \* the configuration held by the samba registry
    passwdFile,   \* lines of /etc/passwd
    groupFile,    \* lines of /etc/group
    passdb,       \* usernames with an entry in the samba passdb
    nssFile,      \* nsswitch.conf: the passwd and group lines
    memPasswd,    \* etc_passwd_loader.lines
    memGroup,     \* etc_group_loader.lines
    memNss,       \* nss.lines
    idx,          \* position of the passdb loop of import_users
    joins,        \* the (username, password) pairs Joiner.join was called with
    execd,        \* the daemon this process was replaced by, "" if none
    trace,        \* the store operations of this invocation, in order
    run,          \* number of the invocation, 1..MaxRuns
    hist,         \* how each earlier invocation ended, oldest first
    start,        \* the stores as this invocation found them
    origin        \* the stores as the first invocation found them

inputs == <<args, env, entry, configSource>>
stores == <<dirs, registry, passwdFile, groupFile, passdb, nssFile>>
locals == <<iconfig, memPasswd, memGroup, memNss, idx>>
outside == <<joins, execd>>
meta == <<run, hist, start, origin>>

vars == <<pc, cli, error, trace, inputs, stores, locals, outside, meta>>

----
\* Bounds of the model.

\* users declared by an Identity Config
MaxUsers == 2
\* groups declared by an Identity Config
MaxGroups == 1
\* records in /etc/passwd and in /etc/group before the first invocation
MaxInitRecords == 1
\* invocations of the tool against the same stores
MaxRuns == 2
\* characters of a --config value or of SAMBACC_CONFIG
MaxPathLen == 3
\* --config options on a command line
MaxConfigArgs == 2

----
\* Values.

None == "None"

UserNames == {"alice", "bob"}
GroupNames == {"staff"}

\* uid a config declares for a user, uid of an account made by hand
DeclaredUid(n) == IF n = "alice" THEN 2000 ELSE 2001
ManualUid(n) == IF n = "alice" THEN 1000 ELSE 1001
DeclaredGid(n) == 2000
ManualGid(n) == 100

Range(s) == {s[i] : i \in 1..Len(s)}
Names(s) == {s[i].name : i \in 1..Len(s)}

\* sequences over S of length at most n whose elements have distinct names
RECURSIVE UniqueSeqs(_, _)
UniqueSeqs(S, n) ==
    IF n = 0 THEN {<<>>}
    ELSE LET shorter == UniqueSeqs(S, n - 1)
         IN shorter \cup
            {Append(s, x) : <<s, x>> \in {q \in shorter \X S : q[2].name \notin Names(q[1])}}

NoConfig == [loaded |-> FALSE, users |-> <<>>, groups |-> <<>>]

----
\* The loaders, by their contracts.

\* cfgs = cli.config or []: the sources handed to read_config_files; a config
\* attribute that is None is the empty list here
Cfgs(c) == c.config

\* sambacc.config: read_config_files(cfgs).get(identity) raises when no source
\* defines the identity; configSource is what the listed sources, merged, define
ConfigHas(id) == Cfgs(cli) # <<>> /\ id \in DOMAIN configSource
ConfigGet(id) == [loaded |-> TRUE,
                  users |-> configSource[id].users,
                  groups |-> configSource[id].groups]

\* passwd_loader: PasswdFileLoader.add_user appends a record unless one of that
\* name is among the lines
add_user(lines, u) ==
    IF u.name \in Names(lines) THEN lines
    ELSE Append(lines, [name |-> u.name, id |-> u.id])

\* passwd_loader: GroupFileLoader.add_group, likewise
add_group(lines, g) ==
    IF g.name \in Names(lines) THEN lines
    ELSE Append(lines, [name |-> g.name, id |-> g.id])

\* nsswitch_loader: winbind is enabled when the passwd and the group line name it
winbind_enabled(n) ==
    /\ "winbind" \in Range(n.passwd)
    /\ "winbind" \in Range(n.group)

\* nsswitch_loader: append winbind to each of the two lines that lacks it
ensure_winbind_enabled(n) ==
    [passwd |-> IF "winbind" \in Range(n.passwd) THEN n.passwd
                ELSE Append(n.passwd, "winbind"),
     group |-> IF "winbind" \in Range(n.group) THEN n.group
               ELSE Append(n.group, "winbind")]

----
\* The command functions as sequences of labels, one label per statement.

TargetChoices == {"smbd", "winbindd"}

\* (variant: the registry import ahead of the config lookup)
ImportConfigSteps_importFirst == <<"ic_dirs", "ic_import", "ic_cfg">>

\* import_config: ensure_samba_dirs, read_config_files().get, loader.import_config
ImportConfigSteps == <<"ic_dirs", "ic_cfg", "ic_import">>

\* (variant: the passdb loop ahead of the group file's write)
ImportUsersSteps_passdbEarly ==
    <<"iu_cfg", "iu_pread", "iu_gread", "iu_addu", "iu_addg",
      "iu_pwrite", "iu_passdb", "iu_gwrite">>

\* (variant: the passwd file is never read)
ImportUsersSteps_noRead ==
    <<"iu_cfg", "iu_gread", "iu_addu", "iu_addg",
      "iu_pwrite", "iu_gwrite", "iu_passdb">>

\* import_users: get the config, read both files, add users and groups, write
\* both files, then the passdb loop
ImportUsersSteps ==
    <<"iu_cfg", "iu_pread", "iu_gread", "iu_addu", "iu_addg",
      "iu_pwrite", "iu_gwrite", "iu_passdb">>

\* the nsswitch part of init_container
NssSteps == <<"nss_read", "nss_check", "nss_ensure", "nss_write">>

\* (variant: the users ahead of the registry)
InitContainerSteps_usersFirst == ImportUsersSteps \o ImportConfigSteps \o NssSteps

\* init_container: import_config, import_users, nsswitch
InitContainerSteps == ImportConfigSteps \o ImportUsersSteps \o NssSteps

\* (variant: initializes whatever --no-init says)
RunContainerSteps_alwaysInit(c) == InitContainerSteps \o <<"run_target">>

\* (variant: never initializes)
RunContainerSteps_neverInit(c) == <<"run_dirs", "run_target">>

\* run_container up to the choice of the target
RunContainerSteps(c) ==
    (IF ~c.no_init THEN InitContainerSteps ELSE <<"run_dirs">>) \o <<"run_target">>

\* cfunc = getattr(cli, "cfunc", default_cfunc)
Cfunc(c) == IF c.cfunc = None THEN "print-config" ELSE c.cfunc

Program(c) ==
    CASE Cfunc(c) = "print-config" -> <<"print_config">>
      [] Cfunc(c) = "import" -> ImportConfigSteps
      [] Cfunc(c) = "import-users" -> ImportUsersSteps
      [] Cfunc(c) = "init" -> InitContainerSteps
      [] Cfunc(c) = "run" -> RunContainerSteps(c)
      [] Cfunc(c) = "insecure-join" -> <<"join">>

\* the label after l in the running command function, "done" when it returns
Succ(l) ==
    LET p == Program(cli)
        i == CHOOSE k \in 1..Len(p) : p[k] = l
    IN IF i < Len(p) THEN p[i + 1] ELSE "done"

\* (variant: the exception is caught and the invocation ends as a success)
Raise_swallowed(kind) == pc' = "done" /\ error' = kind

\* an exception: nothing in main.py catches any, so the invocation ends
Raise(kind) == pc' = "failed" /\ error' = kind

\* a store operation of this invocation
Log(op, arg) == trace' = Append(trace, [op |-> op, arg |-> arg])

----
\* main

Falsy(v) == v = None \/ v = ""

\* (variant: the environment's value first)
from_env_envFirst(ns, var, ename) ==
    LET value == IF ~Falsy(env[ename]) THEN env[ename] ELSE ns[var]
    IN IF ~Falsy(value) THEN [ns EXCEPT ![var] = value] ELSE ns

\* from_env with vtype=str: the namespace value if truthy, else the environment's;
\* set only when truthy
from_env(ns, var, ename) ==
    LET value == IF Falsy(ns[var]) THEN env[ename] ELSE ns[var]
    IN IF ~Falsy(value) THEN [ns EXCEPT ![var] = value] ELSE ns

\* A path string is the sequence of its characters; "" is <<>>.

\* v.split(":")
RECURSIVE SplitStr(_)
SplitStr(v) ==
    IF \A k \in 1..Len(v) : v[k] # ":" THEN <<v>>
    ELSE LET i == CHOOSE k \in 1..Len(v) :
                    v[k] = ":" /\ \A j \in 1..(k - 1) : v[j] # ":"
         IN <<SubSeq(v, 1, i - 1)>> \o SplitStr(SubSeq(v, i + 1, Len(v)))

\* (variant: out is emptied for every value, so only the last one's parts stay)
split_paths_lastOnly(value) ==
    IF value = <<>> THEN <<>> ELSE SplitStr(value[Len(value)])

\* split_paths of a list: the parts of every value, in order
RECURSIVE split_paths(_)
split_paths(value) ==
    IF value = <<>> THEN <<>>
    ELSE SplitStr(Head(value)) \o split_paths(Tail(value))

\* split_paths of a string: "" is returned as it is, any other is a list of one
split_paths_str(value) ==
    IF value = <<>> THEN <<>> ELSE split_paths(<<value>>)

\* from_env(cli, "config", "SAMBACC_CONFIG", vtype=split_paths,
\* default=DEFAULT_CONFIG): the default is not used by from_env
from_env_config(ns) ==
    LET value == IF ns.config = <<>>
                 THEN split_paths_str(env.SAMBACC_CONFIG)
                 ELSE split_paths(ns.config)
    IN IF value # <<>> THEN [ns EXCEPT !.config = value] ELSE ns

FromEnvAll(ns) ==
    from_env(from_env(from_env(from_env_config(ns),
                               "identity", "SAMBA_CONTAINER_ID"),
                      "username", "JOIN_USERNAME"),
             "password", "INSECURE_JOIN_PASSWORD")

\* (variant: the identity check left out)
Main_noIdentityCheck ==
    /\ pc = "main"
    /\ IF Cfunc(args) = "run" /\ args.target \notin TargetChoices
       THEN Raise("SystemExit") /\ UNCHANGED cli
       ELSE /\ cli' = FromEnvAll(args)
            /\ pc' = "pre_action" /\ error' = error
    /\ UNCHANGED <<trace, inputs, stores, locals, outside, meta>>

\* main: parse_args (the target is one of the choices), from_env, the identity check
Main ==
    /\ pc = "main"
    /\ IF Cfunc(args) = "run" /\ args.target \notin TargetChoices
       THEN Raise("SystemExit") /\ UNCHANGED cli
       ELSE /\ cli' = FromEnvAll(args)
            /\ IF Falsy(cli'.identity)
               THEN Raise("missing container identity")
               ELSE pc' = "pre_action" /\ error' = error
    /\ UNCHANGED <<trace, inputs, stores, locals, outside, meta>>

\* pre_action, then cfunc(cli, config)
PreAction ==
    /\ pc = "pre_action"
    /\ pc' = Program(cli)[1]
    /\ IF cli.debug_delay > 0 THEN Log("sleep", "") ELSE trace' = trace
    /\ UNCHANGED <<cli, error, inputs, stores, locals, outside, meta>>

\* print_config
PrintConfig ==
    /\ pc = "print_config"
    /\ IF ConfigHas(cli.identity)
       THEN /\ iconfig' = ConfigGet(cli.identity)
            /\ Log("template_config", "")
            /\ pc' = Succ(pc) /\ error' = error
       ELSE Raise("ConfigNotFound") /\ UNCHANGED <<iconfig, trace>>
    /\ UNCHANGED <<cli, inputs, stores, memPasswd, memGroup, memNss, idx, outside, meta>>

----
\* import_config

\* paths.ensure_samba_dirs(), in import_config and in run_container --no-init
EnsureSambaDirs ==
    /\ pc \in {"ic_dirs", "run_dirs"}
    /\ \/ /\ dirs' = TRUE
          /\ Log("ensure_dirs", "")
          /\ pc' = Succ(pc) /\ error' = error
       \/ Raise("OSError") /\ UNCHANGED <<dirs, trace>>
    /\ UNCHANGED <<cli, inputs, registry, passwdFile, groupFile, passdb, nssFile,
                   locals, outside, meta>>

\* iconfig = config.read_config_files(cfgs).get(cli.identity)
ReadConfig ==
    /\ pc \in {"ic_cfg", "iu_cfg"}
    /\ IF ConfigHas(cli.identity)
       THEN /\ iconfig' = ConfigGet(cli.identity)
            /\ pc' = Succ(pc) /\ error' = error
       ELSE Raise("ConfigNotFound") /\ UNCHANGED iconfig
    /\ UNCHANGED <<cli, trace, inputs, stores, memPasswd, memGroup, memNss, idx,
                   outside, meta>>

\* loader.import_config(iconfig): the registry takes the configuration's
\* settings; it is written only where it differs
NetCmdImport ==
    /\ pc = "ic_import"
    /\ \/ /\ registry' = iconfig
          /\ trace' = trace \o <<[op |-> "net_import", arg |-> ""]>> \o
                (IF registry # iconfig
                 THEN <<[op |-> "registry_write", arg |-> ""]>> ELSE <<>>)
          /\ pc' = Succ(pc) /\ error' = error
       \/ Raise("ExternalToolFailure") /\ UNCHANGED <<registry, trace>>
    /\ UNCHANGED <<cli, inputs, dirs, passwdFile, groupFile, passdb, nssFile,
                   locals, outside, meta>>

----
\* import_users

\* etc_passwd_loader.read()
PasswdRead ==
    /\ pc = "iu_pread"
    /\ \/ /\ memPasswd' = passwdFile
          /\ Log("passwd_read", "")
          /\ pc' = Succ(pc) /\ error' = error
       \/ Raise("FileAccessError") /\ UNCHANGED <<memPasswd, trace>>
    /\ UNCHANGED <<cli, inputs, stores, iconfig, memGroup, memNss, idx, outside, meta>>

\* etc_group_loader.read()
GroupRead ==
    /\ pc = "iu_gread"
    /\ \/ /\ memGroup' = groupFile
          /\ Log("group_read", "")
          /\ pc' = Succ(pc) /\ error' = error
       \/ Raise("FileAccessError") /\ UNCHANGED <<memGroup, trace>>
    /\ UNCHANGED <<cli, inputs, stores, iconfig, memPasswd, memNss, idx, outside, meta>>

\* for u in us: lines.add_user(u)
RECURSIVE AddAllUsers(_, _)
AddAllUsers(lines, us) ==
    IF us = <<>> THEN lines ELSE AddAllUsers(add_user(lines, Head(us)), Tail(us))

\* for g in gs: lines.add_group(g)
RECURSIVE AddAllGroups(_, _)
AddAllGroups(lines, gs) ==
    IF gs = <<>> THEN lines ELSE AddAllGroups(add_group(lines, Head(gs)), Tail(gs))

\* for u in iconfig.users(): etc_passwd_loader.add_user(u)
AddUsers ==
    /\ pc = "iu_addu"
    /\ memPasswd' = AddAllUsers(memPasswd, iconfig.users)
    /\ pc' = Succ(pc)
    /\ UNCHANGED <<cli, error, trace, inputs, stores, iconfig, memGroup, memNss, idx,
                   outside, meta>>

\* for g in iconfig.groups(): etc_group_loader.add_group(g)
AddGroups ==
    /\ pc = "iu_addg"
    /\ memGroup' = AddAllGroups(memGroup, iconfig.groups)
    /\ pc' = Succ(pc)
    /\ UNCHANGED <<cli, error, trace, inputs, stores, iconfig, memPasswd, memNss, idx,
                   outside, meta>>

\* etc_passwd_loader.write()
PasswdWrite ==
    /\ pc = "iu_pwrite"
    /\ \/ /\ passwdFile' = memPasswd
          /\ Log("passwd_write", "")
          /\ pc' = Succ(pc) /\ error' = error
       \/ Raise("FileAccessError") /\ UNCHANGED <<passwdFile, trace>>
    /\ UNCHANGED <<cli, inputs, dirs, registry, groupFile, passdb, nssFile,
                   locals, outside, meta>>

\* etc_group_loader.write()
GroupWrite ==
    /\ pc = "iu_gwrite"
    /\ \/ /\ groupFile' = memGroup
          /\ Log("group_write", "")
          /\ pc' = Succ(pc) /\ error' = error
       \/ Raise("FileAccessError") /\ UNCHANGED <<groupFile, trace>>
    /\ UNCHANGED <<cli, inputs, dirs, registry, passwdFile, passdb, nssFile,
                   locals, outside, meta>>

\* (variant: only the users the passwd step added)
PassdbTargets_onlyAdded ==
    SelectSeq(iconfig.users, LAMBDA u : u.name \notin Names(start.passwd))

\* the users the passdb loop goes over: iconfig.users()
PassdbTargets == iconfig.users

\* for u in iconfig.users(): smb_passdb_loader.add_user(u), one user per step
PassdbAddUser ==
    /\ pc = "iu_passdb"
    /\ IF idx < Len(PassdbTargets)
       THEN \/ /\ passdb' = passdb \cup {PassdbTargets[idx + 1].name}
               /\ Log("passdb_add", PassdbTargets[idx + 1].name)
               /\ idx' = idx + 1
               /\ UNCHANGED <<pc, error>>
            \/ Raise("ExternalToolFailure") /\ UNCHANGED <<passdb, trace, idx>>
       ELSE /\ pc' = Succ(pc)
            /\ idx' = 0
            /\ UNCHANGED <<passdb, trace, error>>
    /\ UNCHANGED <<cli, inputs, dirs, registry, passwdFile, groupFile, nssFile,
                   iconfig, memPasswd, memGroup, memNss, outside, meta>>

----
\* init_container: nsswitch

\* nss.read()
NssRead ==
    /\ pc = "nss_read"
    /\ \/ /\ memNss' = nssFile
          /\ Log("nss_read", "")
          /\ pc' = Succ(pc) /\ error' = error
       \/ Raise("FileAccessError") /\ UNCHANGED <<memNss, trace>>
    /\ UNCHANGED <<cli, inputs, stores, iconfig, memPasswd, memGroup, idx, outside, meta>>

\* (variant: the check dropped)
NssNeedsWrite_always(n) == TRUE

\* if not nss.winbind_enabled():
NssNeedsWrite(n) == ~winbind_enabled(n)

NssCheck ==
    /\ pc = "nss_check"
    /\ pc' = IF NssNeedsWrite(memNss) THEN Succ(pc) ELSE Succ("nss_write")
    /\ UNCHANGED <<cli, error, trace, inputs, stores, locals, outside, meta>>

\* nss.ensure_winbind_enabled()
NssEnsure ==
    /\ pc = "nss_ensure"
    /\ memNss' = ensure_winbind_enabled(memNss)
    /\ pc' = Succ(pc)
    /\ UNCHANGED <<cli, error, trace, inputs, stores, iconfig, memPasswd, memGroup, idx,
                   outside, meta>>

\* nss.write()
NssWrite ==
    /\ pc = "nss_write"
    /\ \/ /\ nssFile' = memNss
          /\ Log("nss_write", "")
          /\ pc' = Succ(pc) /\ error' = error
       \/ Raise("FileAccessError") /\ UNCHANGED <<nssFile, trace>>
    /\ UNCHANGED <<cli, inputs, dirs, registry, passwdFile, groupFile, passdb,
                   locals, outside, meta>>

----
\* run_container and join

SmbdCmd == "/usr/sbin/smbd"
WinbinddCmd == "/usr/sbin/winbindd"

\* the if/elif/else on cli.target
RunTarget ==
    /\ pc = "run_target"
    /\ IF cli.target = "smbd"
       THEN pc' = "exec_smbd" /\ error' = error
       ELSE IF cli.target = "winbindd"
       THEN /\ pc' = IF cli.insecure_auto_join THEN "join" ELSE "exec_winbindd"
            /\ error' = error
       ELSE Raise("invalid target process")
    /\ UNCHANGED <<cli, trace, inputs, stores, locals, outside, meta>>

\* join: joiner.join(cli.username, cli.password)
Join ==
    /\ pc = "join"
    /\ \/ /\ joins' = Append(joins, <<cli.username, cli.password>>)
          /\ Log("join", cli.username)
          /\ pc' = IF Cfunc(cli) = "run" THEN "exec_winbindd" ELSE Succ(pc)
          /\ error' = error
       \/ Raise("JoinError") /\ UNCHANGED <<joins, trace>>
    /\ UNCHANGED <<cli, inputs, stores, locals, execd, meta>>

\* os.execvp taken for a call that comes back
Exec_returns ==
    /\ pc \in {"exec_smbd", "exec_winbindd"}
    /\ \/ /\ execd' = IF pc = "exec_smbd" THEN SmbdCmd ELSE WinbinddCmd
          /\ Log("exec", execd')
          /\ pc' = "done" /\ error' = error
       \/ Raise("OSError") /\ UNCHANGED <<execd, trace>>
    /\ UNCHANGED <<cli, inputs, stores, locals, joins, meta>>

\* os.execvp(cmd[0], cmd): the process becomes the daemon, or the call raises
Exec ==
    /\ pc \in {"exec_smbd", "exec_winbindd"}
    /\ \/ /\ execd' = IF pc = "exec_smbd" THEN SmbdCmd ELSE WinbinddCmd
          /\ Log("exec", execd')
          /\ pc' = "execd" /\ error' = error
       \/ Raise("OSError") /\ UNCHANGED <<execd, trace>>
    /\ UNCHANGED <<cli, inputs, stores, locals, joins, meta>>

----
\* The tool is run again by whoever runs the container: same command line,
\* environment and config, the stores as the last invocation left them.

Snapshot ==
    [registry |-> registry, passwd |-> passwdFile, group |-> groupFile,
     passdb |-> passdb, nss |-> nssFile]

FirstLabel == IF entry = "main" THEN "main" ELSE Program(args)[1]

Restart ==
    /\ pc \in {"done", "failed"}
    /\ run < MaxRuns
    /\ run' = run + 1
    /\ hist' = Append(hist, pc)
    /\ start' = Snapshot
    /\ cli' = args
    /\ pc' = FirstLabel
    /\ error' = ""
    /\ trace' = <<>>
    /\ iconfig' = NoConfig
    /\ memPasswd' = <<>> /\ memGroup' = <<>>
    /\ memNss' = [passwd |-> <<>>, group |-> <<>>]
    /\ idx' = 0
    /\ UNCHANGED <<inputs, stores, outside, origin>>

----
\* The initial states.

Identities == {"srv1"}

DeclaredUsers == {[name |-> n, id |-> DeclaredUid(n)] : n \in UserNames}
DeclaredGroups == {[name |-> n, id |-> DeclaredGid(n)] : n \in GroupNames}
ManualUsers == {[name |-> n, id |-> ManualUid(n)] : n \in UserNames}
ManualGroups == {[name |-> n, id |-> ManualGid(n)] : n \in GroupNames}

ConfigChoices ==
    {[i \in Identities |-> [users |-> us, groups |-> gs]] :
        us \in UniqueSeqs(DeclaredUsers, MaxUsers),
        gs \in UniqueSeqs(DeclaredGroups, MaxGroups)}

NssLines == {<<"files">>, <<"files", "winbind">>}
\* winbind on both lines, on neither, or on the passwd line alone
NssChoices ==
    {n \in [passwd : NssLines, group : NssLines] :
        "winbind" \in Range(n.group) => "winbind" \in Range(n.passwd)}

\* argparse's namespace: the defaults of the top-level options, and the options
\* of the run subcommand
\* --config with the one path "a"
Namespace(f, i, ni, aj, t) ==
    [cfunc |-> f, config |-> <<<<"a">>>>, identity |-> i,
     username |-> "Administrator", password |-> "",
     debug_delay |-> 0, no_init |-> ni, insecure_auto_join |-> aj, target |-> t]

NoEnv == [SAMBACC_CONFIG |-> <<>>, SAMBA_CONTAINER_ID |-> "",
          JOIN_USERNAME |-> "", INSECURE_JOIN_PASSWORD |-> ""]

\* --identity and SAMBA_CONTAINER_ID
IdentityChoices == {<<None, "">>, <<"srv1", "">>, <<"ghost", "">>, <<None, "srv1">>}

\* the command lines: every subcommand, run with each of its options; the
\* identity is given by --identity or, for the subcommands without options, by
\* SAMBA_CONTAINER_ID
MainArgs(ie) ==
    {Namespace(f, ie[1], FALSE, FALSE, None) :
        f \in {"print-config", "import", "import-users", "init", "insecure-join"}}
    \cup (IF ie[2] # "" THEN {}
          ELSE {Namespace("run", ie[1], ni, aj, t) :
                  ni \in BOOLEAN, aj \in BOOLEAN, t \in TargetChoices \cup {"nmbd"}})

\* run_container called with a namespace of the caller's making, whose target
\* is none of the parser's choices
DirectArgs ==
    {Namespace("run", i, ni, FALSE, "nmbd") : i \in {"srv1", "ghost"}, ni \in BOOLEAN}

Init ==
    /\ \/ /\ entry = "main"
          /\ \E ie \in IdentityChoices :
                /\ args \in MainArgs(ie)
                /\ env = [NoEnv EXCEPT !.SAMBA_CONTAINER_ID = ie[2]]
       \/ /\ entry = "direct"
          /\ args \in DirectArgs
          /\ env = NoEnv
    /\ cli = args
    /\ pc = FirstLabel
    /\ error = ""
    /\ trace = <<>>
    /\ configSource \in ConfigChoices
    /\ iconfig = NoConfig
    /\ dirs = FALSE
    /\ registry = NoConfig
    /\ passwdFile \in UniqueSeqs(ManualUsers, MaxInitRecords)
    /\ groupFile \in UniqueSeqs(ManualGroups, MaxInitRecords)
    /\ passdb = {}
    /\ nssFile \in NssChoices
    /\ memPasswd = <<>> /\ memGroup = <<>>
    /\ memNss = [passwd |-> <<>>, group |-> <<>>]
    /\ idx = 0
    /\ joins = <<>>
    /\ execd = ""
    /\ run = 1
    /\ hist = <<>>
    /\ start = Snapshot
    /\ origin = Snapshot

Next ==
    \/ Main
    \/ PreAction
    \/ PrintConfig
    \/ EnsureSambaDirs
    \/ ReadConfig
    \/ NetCmdImport
    \/ PasswdRead
    \/ GroupRead
    \/ AddUsers
    \/ AddGroups
    \/ PasswdWrite
    \/ GroupWrite
    \/ PassdbAddUser
    \/ NssRead
    \/ NssCheck
    \/ NssEnsure
    \/ NssWrite
    \/ RunTarget
    \/ Join
    \/ Exec
    \/ Restart

Spec == Init /\ [][Next]_vars

----
\* Reading the trace.

Has(op) == \E i \in 1..Len(trace) : trace[i].op = op
Count(op) == Cardinality({i \in 1..Len(trace) : trace[i].op = op})

RegistryOps == {"net_import", "registry_write"}
IdentityOps == {"passwd_read", "group_read", "passwd_write", "group_write", "passdb_add"}
NssOps == {"nss_read", "nss_write"}
StoreOps == RegistryOps \cup IdentityOps \cup NssOps
WriteOps == {"registry_write", "passwd_write", "group_write", "passdb_add", "nss_write"}

\* the reconciler step of init_container an operation belongs to
StepOf(op) ==
    IF op \in {"sleep", "template_config"} THEN 0
    ELSE IF op \in RegistryOps \cup {"ensure_dirs"} THEN 1
    ELSE IF op \in IdentityOps THEN 2
    ELSE IF op \in NssOps THEN 3
    ELSE 4

HasStep(n) == \E i \in 1..Len(trace) : StepOf(trace[i].op) = n

StoresUntouched ==
    /\ \A i \in 1..Len(trace) : trace[i].op \notin StoreOps
    /\ Snapshot = start

\* the users and groups the config declares for the requested identity
Declared == configSource[cli.identity]

\* this invocation runs init_container
InitRun == Cfunc(cli) = "init" \/ (Cfunc(cli) = "run" /\ ~cli.no_init)

\* init_container has returned
InitReturned ==
    /\ InitRun
    /\ pc \in {"done", "run_target", "join", "exec_smbd", "exec_winbindd", "execd"}

\* this invocation runs import_users, and import_users has returned
ImportUsersReturned ==
    \/ Cfunc(cli) = "import-users" /\ pc = "done"
    \/ InitRun /\ pc \in {"nss_read", "nss_check", "nss_ensure", "nss_write"}
    \/ InitReturned

----
\* C1: in init_container the operations on the stores come in the order registry,
\* then passwd/group/passdb, then nsswitch; a step's first operation comes only
\* after the step before it is complete; when init_container returns, every step
\* has run once.
C1_InitOrder ==
    InitRun =>
      /\ \A i \in 1..(Len(trace) - 1) :
            StepOf(trace[i].op) <= StepOf(trace[i + 1].op)
      /\ HasStep(2) => Count("ensure_dirs") = 1 /\ Count("net_import") = 1
      /\ HasStep(3) =>
            /\ Count("net_import") = 1
            /\ Count("passwd_read") = 1 /\ Count("group_read") = 1
            /\ Count("passwd_write") = 1 /\ Count("group_write") = 1
            /\ Count("passdb_add") = Len(Declared.users)
      /\ InitReturned =>
            /\ Count("net_import") = 1
            /\ Count("passwd_write") = 1 /\ Count("group_write") = 1
            /\ Count("passdb_add") = Len(Declared.users)
            /\ Count("nss_read") = 1 /\ Count("nss_write") <= 1

C1_Witness ==
    /\ Cfunc(cli) = "init" /\ pc = "done"
    /\ Has("net_import") /\ Has("passdb_add") /\ Has("nss_write")

\* C2: every passdb add_user of import_users comes after the passwd file's write
\* and after the group file's write.
C2_WritesBeforePassdb ==
    \A i \in 1..Len(trace) :
        trace[i].op = "passdb_add" =>
          /\ \E j \in 1..(i - 1) : trace[j].op = "passwd_write"
          /\ \E j \in 1..(i - 1) : trace[j].op = "group_write"

C2_Witness ==
    /\ Cfunc(cli) = "import-users" /\ pc = "done"
    /\ Count("passdb_add") = 2

Entered == pc \notin {"main", "pre_action"} /\ error # "SystemExit"

\* the requested identity is defined by no config source
IdentityAbsent == ~Falsy(cli.identity) /\ ~ConfigHas(cli.identity)

ConfigCommands == {"import", "import-users", "init", "run"}

\* C4 (as claimed): with the identity absent, import, import-users, init and run
\* never run to their end (a return, or the exec of a daemon) and never touch a
\* store.
C4_AsClaimed ==
    (IdentityAbsent /\ Cfunc(cli) \in ConfigCommands /\ Entered) =>
      /\ pc \notin {"done", "execd"}
      /\ StoresUntouched

\* C4 (amended): with the identity absent, import, import-users, init and run
\* without --no-init get no further than their first config lookup, which raises
\* ConfigNotFound (unless making the samba directories failed before it), and no
\* store has been read or written; run --no-init looks up no config and raises no
\* ConfigNotFound, and touches no store either.
C4_ConfigNotFound ==
    (IdentityAbsent /\ Cfunc(cli) \in ConfigCommands /\ Entered) =>
      /\ StoresUntouched
      /\ IF Cfunc(cli) = "run" /\ cli.no_init
         THEN error # "ConfigNotFound"
         ELSE /\ pc \in {"ic_dirs", "ic_cfg", "iu_cfg", "failed"}
              /\ error \in {"", "OSError", "ConfigNotFound"}
              /\ error = "OSError" => ~Has("ensure_dirs")

C4_Witness ==
    /\ IdentityAbsent /\ Cfunc(cli) = "init"
    /\ pc = "failed" /\ error = "ConfigNotFound"
    /\ Has("ensure_dirs")

\* C5 (as claimed): an invocation of import, import-users or init that follows a
\* completed one writes nothing.
C5_AsClaimed ==
    (run > 1 /\ hist[run - 1] = "done"
       /\ Cfunc(cli) \in {"import", "import-users", "init"}) =>
      \A i \in 1..Len(trace) : trace[i].op \notin WriteOps

\* winbind is named exactly once on the passwd line and on the group line
WinbindOnce(n) ==
    /\ Cardinality({i \in 1..Len(n.passwd) : n.passwd[i] = "winbind"}) = 1
    /\ Cardinality({i \in 1..Len(n.group) : n.group[i] = "winbind"}) = 1

\* C6: init_container writes nsswitch.conf exactly when the file it read (the
\* file as the invocation found it: nothing else writes it) did not have winbind
\* enabled; after the step winbind is named once on each line; an init that
\* follows a completed init writes nothing to it.
C6_NssWriteIffAbsent ==
    /\ Has("nss_write") => ~winbind_enabled(start.nss)
    /\ InitReturned =>
          /\ Has("nss_write") <=> ~winbind_enabled(start.nss)
          /\ winbind_enabled(nssFile) /\ WinbindOnce(nssFile)
          /\ ~Has("nss_write") => nssFile = start.nss
    /\ (InitRun /\ run > 1 /\ hist[run - 1] = "done") =>
          ~Has("nss_write") /\ nssFile = start.nss

C6_Witness ==
    /\ Cfunc(cli) = "init" /\ pc = "done"
    /\ Has("nss_write")
    /\ start.nss.passwd = <<"files">>
    /\ nssFile.passwd = <<"files", "winbind">>

\* C7: once import_users has returned, every declared user has been passed to the
\* passdb's add_user and has an entry, those already in the passwd file included.
C7_PassdbForEveryUser ==
    ImportUsersReturned =>
      \A k \in 1..Len(Declared.users) :
        /\ Declared.users[k].name \in passdb
        /\ \E i \in 1..Len(trace) :
              trace[i] = [op |-> "passdb_add", arg |-> Declared.users[k].name]

C7_Witness ==
    /\ Cfunc(cli) = "import-users" /\ pc = "done"
    /\ \E k \in 1..Len(Declared.users) :
          /\ Declared.users[k].name \in Names(start.passwd)
          /\ Declared.users[k].name \in passdb

\* old is the beginning of new
IsPrefix(old, new) ==
    /\ Len(old) <= Len(new)
    /\ \A i \in 1..Len(old) : new[i] = old[i]

\* the declared entries whose name the file did not have
Missing(decl, old) == {d \in Range(decl) : d.name \notin Names(old)}

\* new is old, then exactly one record per missing declared entry
AddedOnly(decl, old, new) ==
    /\ IsPrefix(old, new)
    /\ Len(new) = Len(old) + Cardinality(Missing(decl, old))
    /\ \A d \in Missing(decl, old) :
          /\ Cardinality({i \in 1..Len(new) : new[i].name = d.name}) = 1
          /\ \E i \in (Len(old) + 1)..Len(new) : new[i] = [name |-> d.name, id |-> d.id]

\* C8: the records the passwd and group files had are never changed or removed;
\* once import_users has returned, each file is what it was followed by exactly
\* one record for every declared user or group whose name it did not have.
C8_AddOnly ==
    /\ IsPrefix(start.passwd, passwdFile)
    /\ IsPrefix(start.group, groupFile)
    /\ ImportUsersReturned =>
          /\ AddedOnly(Declared.users, start.passwd, passwdFile)
          /\ AddedOnly(Declared.groups, start.group, groupFile)

C8_Witness ==
    /\ Cfunc(cli) = "import-users" /\ pc = "done"
    /\ start.passwd = <<[name |-> "alice", id |-> 1000]>>
    /\ Declared.users = <<[name |-> "alice", id |-> 2000], [name |-> "bob", id |-> 2001]>>
    /\ passwdFile = <<[name |-> "alice", id |-> 1000], [name |-> "bob", id |-> 2001]>>

\* registry import, identity import and nsswitch ensure have all been done
InitComplete ==
    /\ Count("net_import") = 1
    /\ Count("passwd_write") = 1 /\ Count("group_write") = 1
    /\ Count("passdb_add") = Len(Declared.users)
    /\ Count("nss_read") = 1
    /\ winbind_enabled(nssFile)

\* C9 (as claimed): whenever a daemon has been exec'ed, registry import, identity
\* import and nsswitch ensure were completed before.
C9_AsClaimed ==
    pc = "execd" => InitComplete

\* C9 (amended): a daemon exec'ed by run without --no-init comes after registry
\* import, identity import and nsswitch ensure have all completed; run --no-init
\* execs after ensuring the samba directories only.
C9_HandoffAfterInit ==
    pc = "execd" =>
      /\ trace[Len(trace)].op = "exec"
      /\ Count("exec") = 1
      /\ IF cli.no_init
         THEN /\ trace[1].op = "ensure_dirs"
              /\ \A i \in 1..Len(trace) : trace[i].op \in {"ensure_dirs", "join", "exec"}
         ELSE InitComplete

C9_Witness ==
    /\ pc = "execd" /\ ~cli.no_init
    /\ execd = SmbdCmd
    /\ Has("nss_write") /\ Has("passdb_add")

\* C10 (as claimed): when a daemon has been exec'ed, a join was made exactly if
\* --insecure-auto-join was given.
C10_AsClaimed ==
    pc = "execd" => (Has("join") <=> cli.insecure_auto_join)

----
\* C11: a failing step ends the invocation: the exception is recorded (it reaches
\* the top level), the failing step changes no store and makes no join or exec,
\* and after it nothing happens in this invocation (in particular no exec after a
\* failed join); the stores keep what earlier steps wrote, also when the tool is
\* run again.
C11_FailStop ==
    [][/\ error' # "" => pc' = "failed"
       /\ (pc # "failed" /\ pc' = "failed") =>
             /\ error' # ""
             /\ stores' = stores /\ outside' = outside /\ trace' = trace
       /\ pc = "failed" =>
             /\ run' = run + 1
             /\ stores' = stores /\ outside' = outside]_vars

C11_Witness ==
    /\ pc = "failed" /\ error = "JoinError"
    /\ Has("passwd_write") /\ Has("nss_write") /\ ~Has("exec")
    /\ passwdFile # start.passwd /\ nssFile # start.nss
    /\ execd = ""

\* what one init without failures makes of the stores o under the config
ExpectedAfterInit(o) ==
    [registry |-> ConfigGet(cli.identity),
     passwd |-> AddAllUsers(o.passwd, Declared.users),
     group |-> AddAllGroups(o.group, Declared.groups),
     passdb |-> o.passdb \cup Names(Declared.users),
     nss |-> IF winbind_enabled(o.nss) THEN o.nss ELSE ensure_winbind_enabled(o.nss)]

\* C12: when init_container has returned, the registry, the passwd and group
\* files, the passdb and nsswitch.conf hold what one init without failures makes
\* of the stores the first invocation found, however many earlier invocations
\* failed and wherever they failed.
C12_RestartConverges ==
    InitReturned => Snapshot = ExpectedAfterInit(origin)

C12_Witness ==
    /\ Cfunc(cli) = "init" /\ pc = "done"
    /\ run = 2 /\ hist = <<"failed">>
    /\ start.passwd # origin.passwd /\ start.passdb # origin.passdb
    /\ passdb # start.passdb /\ nssFile # start.nss

\* C16: run --no-init reads and writes none of the registry, the passwd and group
\* files, the passdb and nsswitch.conf; before the exec it ensures the samba
\* directories (and joins, when asked to) and nothing else.
C16_NoInit ==
    (Cfunc(cli) = "run" /\ cli.no_init) =>
      /\ StoresUntouched
      /\ \A i \in 1..Len(trace) : trace[i].op \in {"ensure_dirs", "join", "exec"}
      /\ pc \in {"run_target", "join", "exec_smbd", "exec_winbindd", "execd"} =>
            trace[1].op = "ensure_dirs" /\ dirs

C16_Witness ==
    /\ Cfunc(cli) = "run" /\ cli.no_init
    /\ pc = "execd" /\ execd = WinbinddCmd
    /\ Len(trace) = 2

----
\* main alone: the options and the environment drawn widely, the stores fixed,
\* the subcommands that touch no store.

DEFAULT_CONFIG == <<"/etc/samba/container/config.json">>

Chars == {"a", ":"}

\* the strings over S of at most n characters
RECURSIVE StringsUpTo(_, _)
StringsUpTo(S, n) ==
    IF n = 0 THEN {<<>>}
    ELSE LET shorter == StringsUpTo(S, n - 1)
         IN shorter \cup {Append(v, x) : v \in shorter, x \in S}

PathStrings == StringsUpTo(Chars, MaxPathLen)

\* what action="append" makes of the --config options: <<>> when there is none
ConfigArgLists == StringsUpTo(PathStrings, MaxConfigArgs)

\* --identity, --username, --password, --debug-delay with the environment's
\* three variables, the sources fixed
OptionInputs ==
    {<<[Namespace(f, i, FALSE, FALSE, None)
          EXCEPT !.username = u, !.password = p, !.debug_delay = dd],
       [NoEnv EXCEPT !.SAMBA_CONTAINER_ID = ei, !.JOIN_USERNAME = eu,
                     !.INSECURE_JOIN_PASSWORD = ep]>> :
        f \in {"print-config", "insecure-join"},
        i \in {None, "", "srv1", "ghost"},
        u \in {"Administrator", "", "admin"},
        p \in {"", "pw"},
        dd \in {0, 1},
        ei \in {"", "srv1"}, eu \in {"", "joiner"}, ep \in {"", "envpw"}}

\* --config with SAMBACC_CONFIG: every value of the variable when there is no
\* option, two of them beside each list of options
ConfigInputs ==
    {<<[Namespace("print-config", "srv1", FALSE, FALSE, None) EXCEPT !.config = l],
       [NoEnv EXCEPT !.SAMBACC_CONFIG = e]>> :
        <<l, e>> \in {q \in ConfigArgLists \X PathStrings :
                        q[1] = <<>> \/ q[2] \in {<<>>, <<"a", ":", "a">>}}}

InitMain ==
    /\ entry = "main"
    /\ \E ae \in OptionInputs \cup ConfigInputs : args = ae[1] /\ env = ae[2]
    /\ cli = args
    /\ pc = "main"
    /\ error = ""
    /\ trace = <<>>
    /\ configSource = [i \in Identities |-> [users |-> <<>>, groups |-> <<>>]]
    /\ iconfig = NoConfig
    /\ dirs = FALSE
    /\ registry = NoConfig
    /\ passwdFile = <<>>
    /\ groupFile = <<>>
    /\ passdb = {}
    /\ nssFile = [passwd |-> <<"files">>, group |-> <<"files">>]
    /\ memPasswd = <<>> /\ memGroup = <<>>
    /\ memNss = [passwd |-> <<>>, group |-> <<>>]
    /\ idx = 0
    /\ joins = <<>>
    /\ execd = ""
    /\ run = 1
    /\ hist = <<>>
    /\ start = Snapshot
    /\ origin = Snapshot

NextMain ==
    \/ Main
    \/ PreAction
    \/ PrintConfig
    \/ Join

SpecMain == InitMain /\ [][NextMain]_vars

\* main has parsed the command line and applied from_env
AfterMain == pc # "main" /\ error # "SystemExit"

\* l joined with ":"
RECURSIVE JoinColon(_)
JoinColon(l) ==
    IF l = <<>> THEN <<>>
    ELSE IF Len(l) = 1 THEN l[1]
    ELSE l[1] \o <<":">> \o JoinColon(Tail(l))

\* l is a list of parts, none with a ":", that joined with ":" give v
PartsOf(l, v) ==
    /\ l # <<>>
    /\ \A k \in 1..Len(l) : \A j \in 1..Len(l[k]) : l[k][j] # ":"
    /\ JoinColon(l) = v

EnvName(var) ==
    CASE var = "identity" -> "SAMBA_CONTAINER_ID"
      [] var = "username" -> "JOIN_USERNAME"
      [] var = "password" -> "INSECURE_JOIN_PASSWORD"

\* C13 (as claimed): an --identity given on the command line is the identity
\* used, whatever SAMBA_CONTAINER_ID holds.
C13_AsClaimed ==
    (AfterMain /\ args.identity # None) => cli.identity = args.identity

\* C13 (amended): a non-empty identity, username or password of the command line
\* (the option's default included) is the value used whatever the environment
\* holds, and the sources of --config are those used whatever SAMBACC_CONFIG
\* holds; the environment's value is used only where the command line gave none
\* or an empty one.
C13_ArgOverEnv ==
    AfterMain =>
      /\ \A var \in {"identity", "username", "password"} :
            /\ ~Falsy(args[var]) => cli[var] = args[var]
            /\ cli[var] # args[var] =>
                  Falsy(args[var]) /\ cli[var] = env[EnvName(var)]
      /\ args.config # <<>> => PartsOf(cli.config, JoinColon(args.config))
      /\ cli.config # args.config /\ args.config = <<>> =>
            PartsOf(cli.config, env.SAMBACC_CONFIG)

C13_Witness ==
    /\ AfterMain
    /\ args.identity = "ghost" /\ env.SAMBA_CONTAINER_ID = "srv1"
    /\ args.username = "admin" /\ env.JOIN_USERNAME = "joiner"
    /\ args.password = "pw" /\ env.INSECURE_JOIN_PASSWORD = "envpw"
    /\ cli.identity = "ghost" /\ cli.username = "admin" /\ cli.password = "pw"

\* C14 (as claimed): with --username and --password left at their defaults and
\* JOIN_USERNAME and INSECURE_JOIN_PASSWORD set, the join is made with the
\* environment's username and password.
C14_AsClaimed ==
    (/\ Has("join")
     /\ args.username = "Administrator" /\ args.password = ""
     /\ env.JOIN_USERNAME # "" /\ env.INSECURE_JOIN_PASSWORD # "") =>
      joins[Len(joins)] = <<env.JOIN_USERNAME, env.INSECURE_JOIN_PASSWORD>>

\* C15: with no identity from --identity or SAMBA_CONTAINER_ID, main ends with
\* "missing container identity" and nothing else has happened: no delay, no
\* command function, no store or directory touched, no join, no exec.
C15_MissingIdentity ==
    (Falsy(args.identity) /\ env.SAMBA_CONTAINER_ID = "") =>
      /\ pc \in {"main", "failed"}
      /\ pc = "failed" => error = "missing container identity"
      /\ trace = <<>>
      /\ iconfig = NoConfig
      /\ ~dirs /\ Snapshot = origin
      /\ joins = <<>> /\ execd = ""

C15_Witness ==
    /\ Falsy(args.identity) /\ env.SAMBA_CONTAINER_ID = ""
    /\ args.debug_delay > 0 /\ Cfunc(args) = "insecure-join"
    /\ pc = "failed" /\ error = "missing container identity"

\* C17: the sources handed to the loader are the ":"-separated parts of the
\* --config values in command-line order (joined again with ":" they give the
\* values joined with ":"), or, without --config, the parts of SAMBACC_CONFIG.
C17_SourceOrder ==
    AfterMain =>
      /\ args.config # <<>> => PartsOf(Cfgs(cli), JoinColon(args.config))
      /\ (args.config = <<>> /\ env.SAMBACC_CONFIG # <<>>) =>
            PartsOf(Cfgs(cli), env.SAMBACC_CONFIG)

C17_Witness ==
    /\ pc = "done" /\ Cfunc(cli) = "print-config"
    /\ args.config = <<<<"a", ":">>, <<"a", "a">>>>
    /\ Cfgs(cli) = <<<<"a">>, <<>>, <<"a", "a">>>>

\* C19 (as claimed): with neither --config nor SAMBACC_CONFIG, the sources
\* handed to the loader are the default source alone.
C19_AsClaimed ==
    (AfterMain /\ args.config = <<>> /\ env.SAMBACC_CONFIG = <<>>) =>
      Cfgs(cli) = <<DEFAULT_CONFIG>>

----
\* The config source is a file others can write: between the read of
\* import_config and the read of import_users it may have been replaced.

\* the files named by --config are rewritten while the tool runs
ModifyConfig ==
    /\ pc \notin {"main", "done", "failed", "execd"}
    /\ configSource' \in ConfigChoices \ {configSource}
    /\ UNCHANGED <<pc, cli, error, trace, args, env, entry, stores, locals,
                   outside, meta>>

\* sambacc init, the identity given or not, over each config and each state of
\* the identity files
InitInitContainer ==
    /\ entry = "main"
    /\ \E ie \in IdentityChoices :
          /\ args = Namespace("init", ie[1], FALSE, FALSE, None)
          /\ env = [NoEnv EXCEPT !.SAMBA_CONTAINER_ID = ie[2]]
    /\ cli = args
    /\ pc = "main"
    /\ error = ""
    /\ trace = <<>>
    /\ configSource \in ConfigChoices
    /\ iconfig = NoConfig
    /\ dirs = FALSE
    /\ registry = NoConfig
    /\ passwdFile \in UniqueSeqs(ManualUsers, MaxInitRecords)
    /\ groupFile = <<>>
    /\ passdb = {}
    /\ nssFile \in NssChoices
    /\ memPasswd = <<>> /\ memGroup = <<>>
    /\ memNss = [passwd |-> <<>>, group |-> <<>>]
    /\ idx = 0
    /\ joins = <<>>
    /\ execd = ""
    /\ run = 1
    /\ hist = <<>>
    /\ start = Snapshot
    /\ origin = Snapshot

NextInitContainer ==
    \/ Main
    \/ PreAction
    \/ EnsureSambaDirs
    \/ ReadConfig
    \/ NetCmdImport
    \/ PasswdRead
    \/ GroupRead
    \/ AddUsers
    \/ AddGroups
    \/ PasswdWrite
    \/ GroupWrite
    \/ PassdbAddUser
    \/ NssRead
    \/ NssCheck
    \/ NssEnsure
    \/ NssWrite
    \/ ModifyConfig

SpecInitContainer == InitInitContainer /\ [][NextInitContainer]_vars

\* C18: as claimed: within one init_container execution the configuration the
\* identity import works on (iconfig once import_users has read the passwd file)
\* is the configuration the registry import was given (what the registry holds
\* after net conf import), even if the config source was modified meanwhile.
C18_AsClaimed ==
    (Cfunc(cli) = "init" /\ Has("net_import") /\ Has("passwd_read")) =>
      iconfig = registry

----
\* run_container on its own: every external operation returns or fails, and
\* nobody starts the tool again.

\* sambacc run, with each of its options, and run_container called directly
InitRunContainer ==
    /\ \/ /\ entry = "main"
          /\ args \in {Namespace("run", i, ni, aj, t) :
                         i \in {None, "srv1", "ghost"}, ni \in BOOLEAN,
                         aj \in BOOLEAN, t \in TargetChoices \cup {"nmbd"}}
       \/ /\ entry = "direct"
          /\ args \in DirectArgs
    /\ env = NoEnv
    /\ cli = args
    /\ pc = FirstLabel
    /\ error = ""
    /\ trace = <<>>
    /\ configSource \in ConfigChoices
    /\ iconfig = NoConfig
    /\ dirs = FALSE
    /\ registry = NoConfig
    /\ passwdFile \in UniqueSeqs(ManualUsers, MaxInitRecords)
    /\ groupFile = <<>>
    /\ passdb = {}
    /\ nssFile \in NssChoices
    /\ memPasswd = <<>> /\ memGroup = <<>>
    /\ memNss = [passwd |-> <<>>, group |-> <<>>]
    /\ idx = 0
    /\ joins = <<>>
    /\ execd = ""
    /\ run = 1
    /\ hist = <<>>
    /\ start = Snapshot
    /\ origin = Snapshot

NextRunContainer ==
    \/ Main
    \/ PreAction
    \/ EnsureSambaDirs
    \/ ReadConfig
    \/ NetCmdImport
    \/ PasswdRead
    \/ GroupRead
    \/ AddUsers
    \/ AddGroups
    \/ PasswdWrite
    \/ GroupWrite
    \/ PassdbAddUser
    \/ NssRead
    \/ NssCheck
    \/ NssEnsure
    \/ NssWrite
    \/ RunTarget
    \/ Join
    \/ Exec

SpecRunContainer ==
    InitRunContainer /\ [][NextRunContainer]_vars /\ WF_vars(NextRunContainer)

\* the daemon the selected target names
TargetCmd == IF cli.target = "smbd" THEN SmbdCmd ELSE WinbinddCmd

\* the handoff: one exec, of the target's daemon, the last thing done, no error
HandedOff ==
    /\ pc = "execd"
    /\ error = ""
    /\ cli.target \in TargetChoices
    /\ execd = TargetCmd
    /\ Count("exec") = 1
    /\ trace[Len(trace)] = [op |-> "exec", arg |-> TargetCmd]

\* a fatal error came out of run_container or of main before it: no exec was made
FailedFatally ==
    /\ pc = "failed"
    /\ error # ""
    /\ execd = ""
    /\ ~Has("exec")

\* C20: run mode is terminal: every execution of run reaches, and stays in,
\* exactly one of the handoff (one exec of the target's daemon, as the last
\* action) and a propagated fatal error; it never returns normally, never execs
\* before the end, and once handed off nothing changes any more.
C20_RunTerminal ==
    /\ [](/\ pc # "done"
          /\ pc = "execd" => HandedOff
          /\ pc = "failed" => FailedFatally
          /\ pc \notin {"execd", "failed"} => (execd = "" /\ ~Has("exec")))
    /\ [][pc = "execd" => FALSE]_vars
    /\ <>[](HandedOff \/ FailedFatally)

\* handed off to winbindd after the init and the join
C20_Witness ==
    /\ HandedOff
    /\ execd = WinbinddCmd
    /\ Has("join")
    /\ Has("nss_read")

====
